---- MODULE Spec2Model ----
(***************************************************************************)
(* Model of the LLM recommender (RodrigoLima82/llm_recommender).           *)
(*                                                                         *)
(* The request path of src/03_Assemble_Recommender.py is modelled in its   *)
(* two forms: the notebook cells (functions defined at lines 57-140 and    *)
(* called at lines 143-149) and the app.py listing (lines 189-312) with    *)
(* its FastAPI handler.  A request is cut into steps at its blocking       *)
(* network calls.                                                          *)
(*                                                                         *)
(* Text is a sequence of fragments: each of the characters                 *)
(* { } [ ] : , " ' is a fragment of its own, and so is a blank between two *)
(* of them; every other fragment is a run of characters holding none of    *)
(* { } [ ] : , " '.                                                        *)
(***************************************************************************)
EXTENDS Integers, Sequences, FiniteSets, TLC

\* ------------------------------------------------------------- bounds
\* longest item list of a request
MaxItems == 3
\* most rows the vector index holds
MaxProducts == 6
\* largest num_items of a direct (notebook) call
MaxN == 2

\* the longest a REST call of the setup takes, in seconds
MaxLatency == 1

\* the highest version the model registry holds
MaxVersion == 11

\* ------------------------------------------------------------- text
Q == "\""

WS == {" ", "\n"}

Min(S) == CHOOSE x \in S : \A y \in S : x <= y

Max(S) == CHOOSE x \in S : \A y \in S : x >= y

\* items[:-1]
ButLast(s) == SubSeq(s, 1, Len(s) - 1)

\* sep.join(parts), each part a text
RECURSIVE Join(_, _)
Join(sep, parts) ==
  IF Len(parts) = 0 THEN << >>
  ELSE IF Len(parts) = 1 THEN parts[1]
  ELSE Join(sep, ButLast(parts)) \o sep \o parts[Len(parts)]

\* text.rindex(c) raises ValueError when c is absent
HasChar(text, c) == \E i \in 1..Len(text) : text[i] = c

\* a slip: text.index(c), the first place of c
index_first(text, c) == Min({i \in 1..Len(text) : text[i] = c})

\* text.rindex(c), as a 1-based position
rindex(text, c) == Max({i \in 1..Len(text) : text[i] = c})

\* ------------------------------------------------------------- json.loads
NoVal == [t |-> "none"]

Fail == [ok |-> FALSE, val |-> NoVal, next |-> 0]

Digits == {"1", "42"}

RECURSIVE SkipWs(_, _)
SkipWs(s, i) == IF i <= Len(s) /\ s[i] \in WS THEN SkipWs(s, i + 1) ELSE i

\* s[i] is the opening quote
ParseString(s, i) ==
  LET closers == {j \in (i + 1)..Len(s) : s[j] = Q} IN
  IF closers = {} THEN Fail
  ELSE LET j == Min(closers) IN
       [ok |-> TRUE, val |-> [t |-> "str", s |-> SubSeq(s, i + 1, j - 1)], next |-> j + 1]

RECURSIVE ParseValue(_, _)
RECURSIVE ParseMembers(_, _, _)
RECURSIVE ParseElements(_, _, _)

\* after a member's key at j: "key" : value , ... }
ParseMembers(s, j, acc) ==
  IF j > Len(s) \/ s[j] # Q THEN Fail
  ELSE LET key == ParseString(s, j) IN
    IF ~key.ok THEN Fail
    ELSE LET c == SkipWs(s, key.next) IN
      IF c > Len(s) \/ s[c] # ":" THEN Fail
      ELSE LET v == ParseValue(s, SkipWs(s, c + 1)) IN
        IF ~v.ok THEN Fail
        ELSE LET e == SkipWs(s, v.next)
                 acc2 == Append(acc, [k |-> key.val.s, v |-> v.val]) IN
          IF e > Len(s) THEN Fail
          ELSE IF s[e] = "}" THEN [ok |-> TRUE, val |-> [t |-> "obj", m |-> acc2], next |-> e + 1]
          ELSE IF s[e] = "," THEN ParseMembers(s, SkipWs(s, e + 1), acc2)
          ELSE Fail

\* value , ... ]
ParseElements(s, j, acc) ==
  LET v == ParseValue(s, j) IN
  IF ~v.ok THEN Fail
  ELSE LET e == SkipWs(s, v.next)
           acc2 == Append(acc, v.val) IN
    IF e > Len(s) THEN Fail
    ELSE IF s[e] = "]" THEN [ok |-> TRUE, val |-> [t |-> "arr", a |-> acc2], next |-> e + 1]
    ELSE IF s[e] = "," THEN ParseElements(s, SkipWs(s, e + 1), acc2)
    ELSE Fail

ParseObject(s, i) ==
  LET j == SkipWs(s, i + 1) IN
  IF j > Len(s) THEN Fail
  ELSE IF s[j] = "}" THEN [ok |-> TRUE, val |-> [t |-> "obj", m |-> << >>], next |-> j + 1]
  ELSE ParseMembers(s, j, << >>)

ParseArray(s, i) ==
  LET j == SkipWs(s, i + 1) IN
  IF j > Len(s) THEN Fail
  ELSE IF s[j] = "]" THEN [ok |-> TRUE, val |-> [t |-> "arr", a |-> << >>], next |-> j + 1]
  ELSE ParseElements(s, j, << >>)

ParseValue(s, i) ==
  IF i > Len(s) THEN Fail
  ELSE IF s[i] = "{" THEN ParseObject(s, i)
  ELSE IF s[i] = "[" THEN ParseArray(s, i)
  ELSE IF s[i] = Q THEN ParseString(s, i)
  ELSE IF s[i] \in Digits THEN [ok |-> TRUE, val |-> [t |-> "num", s |-> <<s[i]>>], next |-> i + 1]
  ELSE Fail

\* json.loads(s): one value between optional blanks, nothing after it
json_loads(s) ==
  LET v == ParseValue(s, SkipWs(s, 1)) IN
  IF ~v.ok THEN Fail
  ELSE IF SkipWs(s, v.next) <= Len(s) THEN Fail
  ELSE v

\* ------------------------------------------------------------- Python values
\* key in d
HasKey(d, key) == \E i \in 1..Len(d.m) : d.m[i].k = key

\* d[key]: a repeated key keeps its last value
DictGet(d, key) == d.m[Max({i \in 1..Len(d.m) : d.m[i].k = key})].v

\* the members of a dict, a repeated key at its first place with its last value
DictItems(d) ==
  LET firsts == {i \in 1..Len(d.m) : \A j \in 1..(i - 1) : d.m[j].k # d.m[i].k}
      Nth[n \in 1..Cardinality(firsts)] ==
        CHOOSE i \in firsts : Cardinality({j \in firsts : j <= i}) = n
  IN [n \in 1..Cardinality(firsts) |-> [k |-> d.m[Nth[n]].k, v |-> DictGet(d, d.m[Nth[n]].k)]]

RECURSIVE PyRepr(_)
\* repr(v)
PyRepr(v) ==
  IF v.t = "str" THEN <<"'">> \o v.s \o <<"'">>
  ELSE IF v.t = "num" THEN v.s
  ELSE IF v.t = "arr"
    THEN <<"[">> \o Join(<<",", " ">>, [i \in 1..Len(v.a) |-> PyRepr(v.a[i])]) \o <<"]">>
  ELSE LET its == DictItems(v) IN
    <<"{">>
    \o Join(<<",", " ">>,
            [i \in 1..Len(its) |-> <<"'">> \o its[i].k \o <<"'", ":", " ">> \o PyRepr(its[i].v)])
    \o <<"}">>

\* str(v): a string is itself, anything else its repr
PyStr(v) == IF v.t = "str" THEN v.s ELSE PyRepr(v)

\* ------------------------------------------------------------- prompts
\* 03_Assemble_Recommender.py, the notebook's _get_prompt and app.py's; the
\* Portuguese sentences are written without their accents
system_prompt(variant) ==
  IF variant = "app"
  THEN <<"You are an AI assistant functioning as a recommendation system for an ecommerce website.">>
       \o <<" Be specific and limit your answers to the requested format.">>
  ELSE <<"Voce e um assistente de IA que funciona como um sistema de recomendacao para um site de comercio eletronico.">>
       \o <<" Seja especifico e limite suas respostas ao formato solicitado.">>

\* a slip: the last item is left out of the list
items_delimited_butlast(items) ==
  IF Len(items) = 0 THEN [raised |-> "IndexError", text |-> << >>]
  ELSE [raised |-> "", text |-> Join(<<",", " ">>, [i \in 1..(Len(items) - 1) |-> <<items[i]>>])]

\* a slip: ', '.join(items) whatever the length, which an empty list passes
items_delimited_join(items) ==
  [raised |-> "", text |-> Join(<<",", " ">>, [i \in 1..Len(items) |-> <<items[i]>>])]

\* a slip: ', '.join(items) with the slice forgotten, the last item twice
items_delimited_noslice(items) ==
  IF Len(items) > 1
  THEN [raised |-> "",
        text |-> Join(<<",", " ">>, [i \in 1..Len(items) |-> <<items[i]>>])
                 \o <<",", " ", "and", " ">> \o <<items[Len(items)]>>]
  ELSE IF Len(items) = 0 THEN [raised |-> "IndexError", text |-> << >>]
  ELSE [raised |-> "", text |-> <<items[1]>>]

\* ', '.join(items[:-1]) + ', and ' + items[-1] if len(items) > 1 else items[0]
\* items[0] of an empty list raises IndexError
items_delimited(items) ==
  IF Len(items) > 1
  THEN [raised |-> "",
        text |-> Join(<<",", " ">>, [i \in 1..(Len(items) - 1) |-> <<ButLast(items)[i]>>])
                 \o <<",", " ", "and", " ">> \o <<items[Len(items)]>>]
  ELSE IF Len(items) = 0 THEN [raised |-> "IndexError", text |-> << >>]
  ELSE [raised |-> "", text |-> <<items[1]>>]

\* the user prompt around the delimited items
user_prompt(variant, delimited) ==
  IF variant = "app"
  THEN <<"A user bought", " ">> \o delimited
       \o <<" ", "in that order. What five items would he/she be likely to purchase next?">>
       \o <<"Express your response as a JSON object with a key of", " ", "'", "next_items", "'", " ">>
       \o <<"and a value representing your array of recommended items.">>
  ELSE <<"Um usuario comprou", " ">> \o delimited
       \o <<" ", "nessa ordem. Quais seriam os cinco itens que ele/ela provavelmente compraria em seguida?">>
       \o <<"Expresse sua resposta como um objeto JSON com uma chave", " ", "'", "next_items", "'", " ">>
       \o <<"e um valor representando sua matriz de itens recomendados.">>

\* _get_prompt(items): the prompt, or the exception raised
_get_prompt(variant, items) ==
  LET d == items_delimited(items) IN
  IF d.raised # "" THEN d
  ELSE [raised |-> "",
        text |-> <<"[INST] <<SYS>>", "\n">> \o system_prompt(variant) \o <<"\n", "<</SYS>>", "\n">>
                 \o user_prompt(variant, d.text) \o <<"[/INST]">>]

\* 02_Create_General_Recommendations.py: prompt = None when the list is empty,
\* and None += str raises TypeError
get_user_prompt(ordered_list_of_items) ==
  IF ~(Len(ordered_list_of_items) > 0) THEN [raised |-> "TypeError", text |-> << >>]
  ELSE [raised |-> "",
        text |-> <<"Um usuario comprou os seguintes itens", ":", " ">>
          \o Join(<<",", " ">>, [i \in 1..Len(ordered_list_of_items) |-> <<ordered_list_of_items[i]>>])
          \o <<". Quais seriam os proximos dez itens que ele/ela provavelmente compraria?">>
          \o <<" ", "Expresse sua resposta como um objeto JSON com uma chave", " ", "'", "next_items", "'", " ">>
          \o <<"e um valor representando sua matriz de itens recomendados.">>]

\* ------------------------------------------------------------- LLM output
\* raw_text[:raw_text.rindex('}')+1], defined where raw_text holds a '}'
json_text_of(raw_text) == SubSeq(raw_text, 1, rindex(raw_text, "}"))

\* the key the answer is looked up under
next_items == <<"next_items">>

\* a slip: item[-1], the score
item_m1(item) == item[Len(item)]

\* item[-2] of a row of the data_array
item_m2(item) == item[Len(item) - 1]

\* a slip: the last hit is left out
project_short(data_array) == [j \in 1..(Len(data_array) - 1) |-> item_m2(data_array[j])]

\* [item[-2] for item in results['result']['data_array']]
project(data_array) == [j \in 1..Len(data_array) |-> item_m2(data_array[j])]

\* n_items of the handler
n_items == 5

\* "max_tokens" of the request to the LLM
max_tokens == 128

\* ------------------------------------------------------------- inputs
Reqs == {1, 2}

ItemNames == {"scarf", "beanie"}

ItemLists == UNION {[1..k -> ItemNames] : k \in 0..MaxItems}

Str(w) == <<Q, w, Q>>

\* what the model answers around its JSON object
Prefixes == {<< >>, <<" ">>, <<"Sure! Here are the items", ":", " ">>}

Suffixes == {<< >>, <<"\n", "I hope this helps!">>, <<" ", "{", "enjoy", "}">>}

Bodies ==
  { <<"{">> \o Str("next_items") \o <<":", " ", "[">> \o Str("boots") \o <<",", " ">> \o Str("gloves") \o <<"]", "}">>,
    <<"{">> \o Str("next_items") \o <<":", "[", "]", "}">>,
    <<"{">> \o Str("items") \o <<":", " ", "[">> \o Str("boots") \o <<"]", "}">>,
    <<"{">> \o Str("next_items") \o <<":", " ">> \o Str("boots") \o <<"}">>,
    <<"{">> \o Str("next_items") \o <<":", "[">> \o Str("boots") \o <<"]", ",">> \o Str("meta")
            \o <<":", "{">> \o Str("k") \o <<":", "1", "}", "}">>,
    <<"{">> \o Str("next_items") \o <<":", "[", Q, "size", " ", "{", "M", "}", Q, "]", "}">>,
    <<"{">> \o Str("next_items") \o <<":", "[">> \o Str("boots") \o <<",", "]", "}">>,
    <<"{">> \o Str("next_items") \o <<":", " ", "[">> \o Str("boots") \o <<",", " ">> \o Str("gl"),
    <<"boots", ",", " ", "gloves">> }

RawTexts == {p \o b \o x : p \in Prefixes, b \in Bodies, x \in Suffixes}

\* what requests.post and the reading of its body can come to
LLMReplies ==
  {[kind |-> "ConnectionError", content |-> << >>], [kind |-> "KeyError 'choices'", content |-> << >>]}
  \cup {[kind |-> "content", content |-> t] : t \in RawTexts}

Products == 1..MaxProducts

\* the orders in which the index may rank its rows for a query
Rankings ==
  { [j \in Products |-> j],
    [j \in Products |-> MaxProducts + 1 - j],
    [j \in Products |-> ((j + 1) % MaxProducts) + 1] }

\* a hit: the requested columns id and text, then the score
Row(id, rank) == <<"id" \o ToString(id), "text" \o ToString(id), "score" \o ToString(MaxProducts - rank)>>

\* the num_results best of the avail rows the index holds
Hits(ranking, avail, num_results) ==
  [j \in 1..(IF avail < num_results THEN avail ELSE num_results) |-> Row(ranking[j], j)]

SearchReplies(num_results) ==
  {[kind |-> "Exception", data_array |-> << >>]}
  \cup {[kind |-> "rows", data_array |-> Hits(rk, avail, num_results)] :
          rk \in Rankings, avail \in 0..MaxProducts}

\* ------------------------------------------------------------- state
VARIABLES
  pc,        \* where each request stands
  variant,   \* "app": the handler of app.py; "notebook": the cells of notebook 03;
             \* "nb02": the cells of notebook 02
  items,     \* the request's item list
  num,       \* the num_items asked for
  prompt,    \* the prompt sent to the LLM
  response,  \* what the LLM answered
  general,   \* the value get_general_products returned
  query,     \* the query_text of the similarity search
  results,   \* what the similarity search answered
  calls,     \* the external calls issued so far, in order
  outcome,   \* what the caller got
  vs_client, \* how VectorSearchClient(...) ended for the request
  idx,       \* how vs_client.get_index(...) ended for the request
  config,    \* workspace_url, endpoint_url, token and the index identifiers
  nb01,      \* notebook 01 (the one-time setup): its position and variables
  cloud      \* what notebook 01 acts on: table, serving endpoint, vector search

vars == <<pc, variant, items, num, prompt, response, general, query, results, calls, outcome,
          vs_client, idx, config, nb01, cloud>>

\* what no step of a request assigns
other_vars == <<config, nb01, cloud>>

NoResponse == [kind |-> "none", content |-> << >>]

NoResults == [kind |-> "none", data_array |-> << >>]

NoOutcome == [kind |-> "none", err |-> "", result |-> << >>]

\* os.environ at the start of the process, and the names app.py hardcodes
Environment ==
  [workspace_url |-> "LLM_RECOMMENDER_WORKSPACE_URL", endpoint_url |-> "LLM_RECOMMENDER_ENDPOINT_URL",
   token |-> "LLM_RECOMMENDER_PAT", index_name |-> "solacc_uc.llm_recommender.product_index",
   endpoint_name |-> "vs_llm_recommender_embeddings"]

\* notebook 01 is not part of the serving process
NotRun == [pc |-> "off"]

NoCloud == [table |-> "none"]

Init ==
  /\ pc = [r \in Reqs |-> IF r = 1 THEN "idle" ELSE "off"]
  /\ variant = [r \in Reqs |-> "none"]
  /\ items = [r \in Reqs |-> << >>]
  /\ num = [r \in Reqs |-> 0]
  /\ prompt = [r \in Reqs |-> << >>]
  /\ response = [r \in Reqs |-> NoResponse]
  /\ general = [r \in Reqs |-> NoVal]
  /\ query = [r \in Reqs |-> << >>]
  /\ results = [r \in Reqs |-> NoResults]
  /\ calls = [r \in Reqs |-> << >>]
  /\ outcome = [r \in Reqs |-> NoOutcome]
  /\ vs_client = [r \in Reqs |-> "none"]
  /\ idx = [r \in Reqs |-> "none"]
  /\ config = Environment
  /\ nb01 = NotRun
  /\ cloud = NoCloud

\* an external call: the service, the text sent, and max_tokens or num_results
Call(op, text, limit) == [op |-> op, text |-> text, limit |-> limit]

\* idx.similarity_search(query_text=..., columns=[...], num_results=...)
similarity_search(query_text, columns, num_results) ==
  [op |-> "similarity_search", text |-> query_text, limit |-> num_results, columns |-> columns]

\* a slip: the handler swallows the exception and answers with a list
Raised_swallowed(v, err) == [kind |-> "ok", err |-> err, result |-> << >>]

\* an exception raised under the handler's try: app.py answers HTTP 500 with
\* str(e) as detail; in a notebook it ends the cell
Raised(v, err) ==
  IF v = "app" THEN [kind |-> "http500", err |-> err, result |-> << >>]
  ELSE [kind |-> "raised", err |-> err, result |-> << >>]

\* an exception raised outside any try
Escaped(err) == [kind |-> "raised", err |-> err, result |-> << >>]

Returned(result) == [kind |-> "ok", err |-> "", result |-> result]

\* ------------------------------------------------------------- steps
\* POST /recommendations/ arrives: n_items = 5
PostRecommendations(r, its) ==
  /\ pc[r] = "idle"
  /\ pc' = [pc EXCEPT ![r] = "client"]
  /\ variant' = [variant EXCEPT ![r] = "app"]
  /\ items' = [items EXCEPT ![r] = its]
  /\ num' = [num EXCEPT ![r] = n_items]
  /\ UNCHANGED <<prompt, response, general, query, idx, results, calls, outcome>>
  /\ UNCHANGED vs_client
  /\ UNCHANGED other_vars

\* the notebook's cells call the functions themselves
RunNotebook(r, its, k) ==
  /\ pc[r] = "idle"
  /\ pc' = [pc EXCEPT ![r] = "client"]
  /\ variant' = [variant EXCEPT ![r] = "notebook"]
  /\ items' = [items EXCEPT ![r] = its]
  /\ num' = [num EXCEPT ![r] = k]
  /\ UNCHANGED <<prompt, response, general, query, idx, results, calls, outcome>>
  /\ UNCHANGED vs_client
  /\ UNCHANGED other_vars

\* a slip: the handler rebinds the module's token when the client cannot be made
MakeClient_rebinds(r, built) ==
  /\ pc[r] = "client"
  /\ IF built
     THEN /\ pc' = [pc EXCEPT ![r] = "prompt"]
          /\ UNCHANGED <<outcome, config>>
     ELSE /\ pc' = [pc EXCEPT ![r] = "done"]
          /\ outcome' = [outcome EXCEPT ![r] = Escaped("Exception")]
          /\ config' = [config EXCEPT !.token = ""]
  /\ UNCHANGED <<variant, items, num, prompt, response, general, query, idx, results, calls>>
  /\ vs_client' = [vs_client EXCEPT ![r] = IF built THEN "built" ELSE "Exception"]
  /\ UNCHANGED <<nb01, cloud>>

\* vs_client = VectorSearchClient(...), before the try
MakeClient(r, built) ==
  /\ pc[r] = "client"
  /\ IF built
     THEN /\ pc' = [pc EXCEPT ![r] = "prompt"]
          /\ UNCHANGED outcome
     ELSE /\ pc' = [pc EXCEPT ![r] = "done"]
          /\ outcome' = [outcome EXCEPT ![r] = Escaped("Exception")]
  /\ UNCHANGED <<variant, items, num, prompt, response, general, query, idx, results, calls>>
  /\ vs_client' = [vs_client EXCEPT ![r] = IF built THEN "built" ELSE "Exception"]
  /\ UNCHANGED other_vars

\* get_general_products up to requests.post
SendPrompt(r) ==
  /\ pc[r] = "prompt"
  /\ LET p == _get_prompt(variant[r], items[r]) IN
     IF p.raised # ""
     THEN /\ pc' = [pc EXCEPT ![r] = "done"]
          /\ outcome' = [outcome EXCEPT ![r] = Raised(variant[r], p.raised)]
          /\ UNCHANGED <<prompt, calls>>
     ELSE /\ pc' = [pc EXCEPT ![r] = "llm_wait"]
          /\ prompt' = [prompt EXCEPT ![r] = p.text]
          /\ calls' = [calls EXCEPT ![r] = Append(@, Call("llm", p.text, max_tokens))]
          /\ UNCHANGED outcome
  /\ UNCHANGED <<variant, items, num, response, general, query, idx, results>>
  /\ UNCHANGED vs_client
  /\ UNCHANGED other_vars

\* a slip: json.loads is left out and the text through the last '}' passed on
parse_general_unparsed(v, raw) ==
  IF ~HasChar(raw, "}") THEN [ok |-> FALSE, err |-> "ValueError", val |-> NoVal]
  ELSE [ok |-> TRUE, err |-> "", val |-> [t |-> "str", s |-> json_text_of(raw)]]

\* a slip: app.py returns json_text as the notebook does, the key not looked up
parse_general_nokey(v, raw) ==
  IF ~HasChar(raw, "}") THEN [ok |-> FALSE, err |-> "ValueError", val |-> NoVal]
  ELSE IF ~json_loads(json_text_of(raw)).ok
    THEN [ok |-> FALSE, err |-> "JSONDecodeError", val |-> NoVal]
  ELSE [ok |-> TRUE, err |-> "", val |-> [t |-> "str", s |-> json_text_of(raw)]]

\* a slip: a text without '}' is passed on as it is
parse_general_fallback(v, raw) ==
  IF ~HasChar(raw, "}") THEN [ok |-> TRUE, err |-> "", val |-> [t |-> "str", s |-> raw]]
  ELSE LET ret == json_loads(json_text_of(raw)) IN
    IF ~ret.ok THEN [ok |-> FALSE, err |-> "JSONDecodeError", val |-> NoVal]
    ELSE IF v # "app" THEN [ok |-> TRUE, err |-> "", val |-> [t |-> "str", s |-> json_text_of(raw)]]
    ELSE IF ~HasKey(ret.val, next_items)
      THEN [ok |-> FALSE, err |-> "KeyError 'next_items'", val |-> NoVal]
    ELSE [ok |-> TRUE, err |-> "", val |-> DictGet(ret.val, next_items)]

\* get_general_products from raw_text on: what it returns or raises.  The
\* notebook returns json_text, app.py the value under 'next_items'.
parse_general(v, raw) ==
  IF ~HasChar(raw, "}") THEN [ok |-> FALSE, err |-> "ValueError", val |-> NoVal]
  ELSE LET json_text == json_text_of(raw)
           ret == json_loads(json_text) IN
    IF ~ret.ok THEN [ok |-> FALSE, err |-> "JSONDecodeError", val |-> NoVal]
    ELSE IF v # "app" THEN [ok |-> TRUE, err |-> "", val |-> [t |-> "str", s |-> json_text]]
    ELSE IF ret.val.t # "obj" THEN [ok |-> FALSE, err |-> "TypeError", val |-> NoVal]
    ELSE IF ~HasKey(ret.val, next_items)
      THEN [ok |-> FALSE, err |-> "KeyError 'next_items'", val |-> NoVal]
    ELSE [ok |-> TRUE, err |-> "", val |-> DictGet(ret.val, next_items)]

\* a slip: a failed requests.post is sent once more
LLMReturns_retry(r, reply) ==
  /\ pc[r] = "llm_wait"
  /\ response' = [response EXCEPT ![r] = reply]
  /\ IF reply.kind # "content"
     THEN IF Len(calls[r]) < 2
          THEN /\ calls' = [calls EXCEPT ![r] = Append(@, Call("llm", prompt[r], max_tokens))]
               /\ UNCHANGED <<pc, outcome, general>>
          ELSE /\ pc' = [pc EXCEPT ![r] = "done"]
               /\ outcome' = [outcome EXCEPT ![r] = Raised(variant[r], reply.kind)]
               /\ UNCHANGED <<general, calls>>
     ELSE LET got == parse_general(variant[r], reply.content) IN
          /\ IF got.ok
             THEN /\ pc' = [pc EXCEPT ![r] = "index_wait"]
                  /\ general' = [general EXCEPT ![r] = got.val]
                  /\ calls' = [calls EXCEPT ![r] = Append(@, Call("get_index", << >>, 0))]
                  /\ UNCHANGED outcome
             ELSE /\ pc' = [pc EXCEPT ![r] = "done"]
                  /\ outcome' = [outcome EXCEPT ![r] = Raised(variant[r], got.err)]
                  /\ UNCHANGED <<general, calls>>
  /\ UNCHANGED <<variant, items, num, prompt, query, idx, results>>
  /\ UNCHANGED vs_client
  /\ UNCHANGED other_vars

\* requests.post returns; the content is parsed; get_specific_products starts
\* with vs_client.get_index
LLMReturns(r, reply) ==
  /\ pc[r] = "llm_wait"
  /\ response' = [response EXCEPT ![r] = reply]
  /\ IF reply.kind # "content"
     THEN /\ pc' = [pc EXCEPT ![r] = "done"]
          /\ outcome' = [outcome EXCEPT ![r] = Raised(variant[r], reply.kind)]
          /\ UNCHANGED <<general, calls>>
     ELSE LET got == parse_general(variant[r], reply.content) IN
          /\ IF got.ok
             THEN /\ pc' = [pc EXCEPT ![r] = "index_wait"]
                  /\ general' = [general EXCEPT ![r] = got.val]
                  /\ calls' = [calls EXCEPT ![r] = Append(@, Call("get_index", << >>, 0))]
                  /\ UNCHANGED outcome
             ELSE /\ pc' = [pc EXCEPT ![r] = "done"]
                  /\ outcome' = [outcome EXCEPT ![r] = Raised(variant[r], got.err)]
                  /\ UNCHANGED <<general, calls>>
  /\ UNCHANGED <<variant, items, num, prompt, query, idx, results>>
  /\ UNCHANGED vs_client
  /\ UNCHANGED other_vars

\* a slip: one similarity search for each of the general suggestions
GetIndexReturns_per_item(r, found) ==
  /\ pc[r] = "index_wait"
  /\ idx' = [idx EXCEPT ![r] = IF found THEN "found" ELSE "Exception"]
  /\ IF found
     THEN /\ pc' = [pc EXCEPT ![r] = "search_wait"]
          /\ query' = [query EXCEPT ![r] = PyStr(general[r])]
          /\ calls' = [calls EXCEPT ![r] =
                IF general[r].t = "arr"
                THEN @ \o [i \in 1..Len(general[r].a) |->
                             similarity_search(PyStr(general[r].a[i]), <<"id", "text">>, num[r])]
                ELSE Append(@, similarity_search(PyStr(general[r]), <<"id", "text">>, num[r]))]
          /\ UNCHANGED outcome
     ELSE /\ pc' = [pc EXCEPT ![r] = "done"]
          /\ outcome' = [outcome EXCEPT ![r] = Raised(variant[r], "Exception")]
          /\ UNCHANGED <<query, calls>>
  /\ UNCHANGED <<variant, items, num, prompt, response, general, results>>
  /\ UNCHANGED vs_client
  /\ UNCHANGED other_vars

\* a slip: general_items is a module-level name that the latest request to
\* pass the LLM stage has bound, read here by whichever request searches
GetIndexReturns_shared(r, found) ==
  /\ pc[r] = "index_wait"
  /\ idx' = [idx EXCEPT ![r] = IF found THEN "found" ELSE "Exception"]
  /\ IF found
     THEN LET others == {q \in Reqs \ {r} : general[q].t # "none"}
              general_items == IF others = {} THEN general[r] ELSE general[CHOOSE q \in others : TRUE] IN
          /\ pc' = [pc EXCEPT ![r] = "search_wait"]
          /\ query' = [query EXCEPT ![r] = PyStr(general_items)]
          /\ calls' = [calls EXCEPT ![r] = Append(@, similarity_search(PyStr(general_items), <<"id", "text">>, num[r]))]
          /\ UNCHANGED outcome
     ELSE /\ pc' = [pc EXCEPT ![r] = "done"]
          /\ outcome' = [outcome EXCEPT ![r] = Raised(variant[r], "Exception")]
          /\ UNCHANGED <<query, calls>>
  /\ UNCHANGED <<variant, items, num, prompt, response, general, results>>
  /\ UNCHANGED vs_client
  /\ UNCHANGED other_vars

\* get_index returns; idx.similarity_search(query_text=str(general_items), ...)
GetIndexReturns(r, found) ==
  /\ pc[r] = "index_wait"
  /\ idx' = [idx EXCEPT ![r] = IF found THEN "found" ELSE "Exception"]
  /\ IF found
     THEN /\ pc' = [pc EXCEPT ![r] = "search_wait"]
          /\ query' = [query EXCEPT ![r] = PyStr(general[r])]
          /\ calls' = [calls EXCEPT ![r] = Append(@, similarity_search(PyStr(general[r]), <<"id", "text">>, num[r]))]
          /\ UNCHANGED outcome
     ELSE /\ pc' = [pc EXCEPT ![r] = "done"]
          /\ outcome' = [outcome EXCEPT ![r] = Raised(variant[r], "Exception")]
          /\ UNCHANGED <<query, calls>>
  /\ UNCHANGED <<variant, items, num, prompt, response, general, results>>
  /\ UNCHANGED vs_client
  /\ UNCHANGED other_vars

\* what get_specific_products returns from the answer of the search
specific_items(data_array) == project(data_array)

\* a slip: the imported random is used to shuffle the texts before returning
SearchReturns_shuffled(r, reply) ==
  /\ pc[r] = "search_wait"
  /\ pc' = [pc EXCEPT ![r] = "done"]
  /\ results' = [results EXCEPT ![r] = reply]
  /\ IF reply.kind = "rows"
     THEN LET texts == specific_items(reply.data_array) IN
          \E shuffled \in {texts, [j \in 1..Len(texts) |-> texts[Len(texts) + 1 - j]]} :
            outcome' = [outcome EXCEPT ![r] = Returned(shuffled)]
     ELSE outcome' = [outcome EXCEPT ![r] = Raised(variant[r], reply.kind)]
  /\ UNCHANGED <<variant, items, num, prompt, response, general, query, idx, calls>>
  /\ UNCHANGED vs_client
  /\ UNCHANGED other_vars

\* similarity_search returns; the texts are projected and returned
SearchReturns(r, reply) ==
  /\ pc[r] = "search_wait"
  /\ pc' = [pc EXCEPT ![r] = "done"]
  /\ results' = [results EXCEPT ![r] = reply]
  /\ IF reply.kind = "rows"
     THEN outcome' = [outcome EXCEPT ![r] = Returned(specific_items(reply.data_array))]
     ELSE outcome' = [outcome EXCEPT ![r] = Raised(variant[r], reply.kind)]
  /\ UNCHANGED <<variant, items, num, prompt, response, general, query, idx, calls>>
  /\ UNCHANGED vs_client
  /\ UNCHANGED other_vars

\* notebook 02: user_prompt = get_user_prompt([...])
RunPromptNotebook(r, its) ==
  /\ pc[r] = "idle"
  /\ variant' = [variant EXCEPT ![r] = "nb02"]
  /\ items' = [items EXCEPT ![r] = its]
  /\ LET p == get_user_prompt(its) IN
     IF p.raised # ""
     THEN /\ pc' = [pc EXCEPT ![r] = "done"]
          /\ outcome' = [outcome EXCEPT ![r] = Escaped(p.raised)]
          /\ UNCHANGED <<prompt, calls>>
     ELSE /\ pc' = [pc EXCEPT ![r] = "llm02_wait"]
          /\ prompt' = [prompt EXCEPT ![r] = p.text]
          /\ calls' = [calls EXCEPT ![r] = Append(@, Call("llm", p.text, max_tokens))]
          /\ UNCHANGED outcome
  /\ UNCHANGED <<num, response, general, query, idx, results>>
  /\ UNCHANGED vs_client
  /\ UNCHANGED other_vars

\* notebook 02: ChatCompletion.create returns and the message is printed
TestThePrompt(r, reply) ==
  /\ pc[r] = "llm02_wait"
  /\ reply.kind # "KeyError 'choices'"
  /\ pc' = [pc EXCEPT ![r] = "done"]
  /\ response' = [response EXCEPT ![r] = reply]
  /\ IF reply.kind = "content"
     THEN outcome' = [outcome EXCEPT ![r] = Returned(reply.content)]
     ELSE outcome' = [outcome EXCEPT ![r] = Escaped(reply.kind)]
  /\ UNCHANGED <<variant, items, num, prompt, general, query, idx, results, calls>>
  /\ UNCHANGED vs_client
  /\ UNCHANGED other_vars

Next ==
  \E r \in Reqs :
    \/ \E its \in ItemLists : PostRecommendations(r, its)
    \/ \E its \in ItemLists, k \in 1..MaxN : RunNotebook(r, its, k)
    \/ \E built \in BOOLEAN : MakeClient(r, built)
    \/ SendPrompt(r)
    \/ \E reply \in LLMReplies : LLMReturns(r, reply)
    \/ \E found \in BOOLEAN : GetIndexReturns(r, found)
    \/ \E reply \in SearchReplies(num[r]) : SearchReturns(r, reply)
    \/ \E its \in ItemLists : RunPromptNotebook(r, its)
    \/ \E reply \in LLMReplies : TestThePrompt(r, reply)

Spec == Init /\ [][Next]_vars

\* ------------------------------------------------------------- two requests
\* two HTTP requests in the same process, their steps interleaved in any order
InitPair ==
  /\ pc = [r \in Reqs |-> "idle"]
  /\ variant = [r \in Reqs |-> "none"]
  /\ items = [r \in Reqs |-> << >>]
  /\ num = [r \in Reqs |-> 0]
  /\ prompt = [r \in Reqs |-> << >>]
  /\ response = [r \in Reqs |-> NoResponse]
  /\ general = [r \in Reqs |-> NoVal]
  /\ query = [r \in Reqs |-> << >>]
  /\ results = [r \in Reqs |-> NoResults]
  /\ calls = [r \in Reqs |-> << >>]
  /\ outcome = [r \in Reqs |-> NoOutcome]
  /\ vs_client = [r \in Reqs |-> "none"]
  /\ idx = [r \in Reqs |-> "none"]
  /\ config = Environment
  /\ nb01 = NotRun
  /\ cloud = NoCloud

\* the inputs of the two: item lists of at most one item, the LLM's bare
\* answers, and an index that is empty or holds at least num_results rows
PairItemLists == {its \in ItemLists : Len(its) <= 1}

PairLLMReplies == {reply \in LLMReplies : reply.kind = "content" => reply.content \in Bodies}

PairSearchReplies(num_results) ==
  {reply \in SearchReplies(num_results) :
     reply.kind = "rows" => Len(reply.data_array) \in {0, Min({num_results, MaxProducts})}}

NextPair ==
  \E r \in Reqs :
    \/ \E its \in PairItemLists : PostRecommendations(r, its)
    \/ \E built \in BOOLEAN : MakeClient(r, built)
    \/ SendPrompt(r)
    \/ \E reply \in PairLLMReplies : LLMReturns(r, reply)
    \/ \E found \in BOOLEAN : GetIndexReturns(r, found)
    \/ \E reply \in PairSearchReplies(num[r]) : SearchReturns(r, reply)

SpecPair == InitPair /\ [][NextPair]_vars

\* ------------------------------------------------------------- setup
\* 01_Prepare_Product_Search_Data.py, run from top to bottom.  nb01 holds the
\* notebook's position (pc), the exception that ended it (err), its variables,
\* the calls it has issued (calls) and, while it is in a wait loop, the seconds
\* time.time() has advanced since the loop was set up (now) and the number of
\* polls made (polls) and the time of the last of them (observed_at); cloud
\* holds the products table, its change data feed, the model serving
\* endpoint, the vector search endpoint and the vector search index and, while
\* the notebook waits for one of them, the time on the loop's clock since
\* which it has been ready without a break (ready_since).
endpoint_timeout_seconds == 1800

endpoint_sleep == 30

index_timeout_seconds == 7200

index_sleep == 60

StatusCodes == {200, 404}

\* what ['state']['ready'] of the serving endpoint can read: the two values
\* the service documents and any other
ReadyStates == {"NOT_READY", "READY", "UNKNOWN"}

Latencies == {0, MaxLatency}

\* the workspace the notebook is started in: nothing there yet, or what an
\* earlier run has left
Clouds ==
  {c \in [table : {"none", "products"}, cdf : BOOLEAN,
          serving : {"absent"} \cup ReadyStates,
          vs_endpoint : BOOLEAN, index : {"absent", "syncing", "ready"},
          ready_since : {0}] :
     /\ c.cdf => c.table = "products"
     /\ c.index # "absent" => (c.vs_endpoint /\ c.table = "products" /\ c.cdf /\ c.serving # "absent")
     /\ c.serving = "absent" => c.table = "none"}

InitSetup ==
  /\ pc = [r \in Reqs |-> "off"]
  /\ variant = [r \in Reqs |-> "none"]
  /\ items = [r \in Reqs |-> << >>]
  /\ num = [r \in Reqs |-> 0]
  /\ prompt = [r \in Reqs |-> << >>]
  /\ response = [r \in Reqs |-> NoResponse]
  /\ general = [r \in Reqs |-> NoVal]
  /\ query = [r \in Reqs |-> << >>]
  /\ results = [r \in Reqs |-> NoResults]
  /\ calls = [r \in Reqs |-> << >>]
  /\ outcome = [r \in Reqs |-> NoOutcome]
  /\ vs_client = [r \in Reqs |-> "none"]
  /\ idx = [r \in Reqs |-> "none"]
  /\ config = Environment
  /\ nb01 = [pc |-> "drop_index", err |-> "", now |-> 0, stop_time |-> 0, waiting |-> FALSE,
             polls |-> 0, observed_at |-> 0, status_code |-> 0, deploy_status |-> 0, status |-> "",
             endpoint_exists |-> FALSE, index_exists |-> FALSE, is_ready |-> FALSE,
             calls |-> << >>]
  /\ cloud \in Clouds

\* what no step of the setup assigns
request_vars == <<pc, variant, items, num, prompt, response, general, query, results, calls,
                  outcome, vs_client, idx, config>>

\* an exception ends the run of the notebook
Abort(nb, err) == [nb EXCEPT !.pc = "aborted", !.err = err]

Issue(nb, op) == [nb EXCEPT !.calls = Append(@, op)]

\* vs_client.delete_index(...) under try/except: an error is printed and passed
DropIndex(deleted) ==
  /\ nb01.pc = "drop_index"
  /\ nb01' = [Issue(nb01, "delete_index") EXCEPT !.pc = "create_table"]
  /\ cloud' = IF deleted /\ cloud.index # "absent" THEN [cloud EXCEPT !.index = "absent"] ELSE cloud
  /\ UNCHANGED request_vars

\* CREATE OR REPLACE TABLE products and the append of the data: the statement
\* sets no table property
PersistAsDeltaLakeTable(done) ==
  /\ nb01.pc = "create_table"
  /\ IF done
     THEN /\ nb01' = [Issue(nb01, "CREATE OR REPLACE TABLE") EXCEPT !.pc = "deploy"]
          /\ cloud' = [cloud EXCEPT !.table = "products", !.cdf = FALSE]
     ELSE /\ nb01' = Abort(Issue(nb01, "CREATE OR REPLACE TABLE"), "AnalysisException")
          /\ UNCHANGED cloud
  /\ UNCHANGED request_vars

\* a slip: the POST is sent whatever the GET answered
DeployModelServingEndpoint_unguarded(get_status, post_status) ==
  /\ nb01.pc = "deploy"
  /\ get_status = 200 => cloud.serving # "absent"
  /\ LET got == [Issue(nb01, "GET serving-endpoints") EXCEPT !.status_code = get_status]
         posted == [Issue(got, "POST serving-endpoints") EXCEPT !.deploy_status = post_status] IN
     IF post_status # 200
     THEN nb01' = Abort(posted, "Request failed") /\ UNCHANGED cloud
     ELSE /\ nb01' = [posted EXCEPT !.pc = "wait_endpoint", !.now = 0,
                         !.stop_time = endpoint_timeout_seconds, !.waiting = TRUE, !.polls = 0]
          /\ cloud' = [cloud EXCEPT !.serving = "NOT_READY"]
  /\ UNCHANGED request_vars

\* the GET for the endpoint; unless it answers 200, the POST that creates it,
\* which raises unless it answers 200; then timeout_seconds, stop_time and
\* waiting are set for the loop, the clock read from the start of the loop
DeployModelServingEndpoint(get_status, post_status) ==
  /\ nb01.pc = "deploy"
  /\ get_status = 200 => cloud.serving # "absent"
  /\ LET got == [Issue(nb01, "GET serving-endpoints") EXCEPT !.status_code = get_status]
         posted == [Issue(got, "POST serving-endpoints") EXCEPT !.deploy_status = post_status]
         Loop(nb) == [nb EXCEPT !.pc = "wait_endpoint", !.now = 0,
                                !.stop_time = endpoint_timeout_seconds, !.waiting = TRUE, !.polls = 0] IN
     IF get_status = 200
     THEN nb01' = Loop(got) /\ UNCHANGED cloud
     ELSE IF post_status # 200
     THEN nb01' = Abort(posted, "Request failed") /\ UNCHANGED cloud
     ELSE /\ nb01' = Loop(posted)
          /\ cloud' = [cloud EXCEPT !.serving = "NOT_READY"]
  /\ UNCHANGED request_vars

\* a slip: the deadline is never looked at
PollEndpoint_forever(latency, answered) ==
  /\ nb01.pc = "wait_endpoint"
  /\ nb01.polls <= (endpoint_timeout_seconds \div endpoint_sleep) + 1
  /\ IF ~answered THEN nb01' = Abort(nb01, "KeyError 'state'")
     ELSE IF cloud.serving = "NOT_READY"
     THEN nb01' = [nb01 EXCEPT !.status = cloud.serving, !.polls = @ + 1, !.observed_at = nb01.now,
                               !.now = @ + latency + endpoint_sleep]
     ELSE nb01' = [nb01 EXCEPT !.status = cloud.serving, !.polls = 0, !.now = 0, !.observed_at = 0,
                               !.waiting = FALSE, !.pc = "test_endpoint"]
  /\ cloud' = IF answered /\ cloud.serving # "NOT_READY" THEN [cloud EXCEPT !.ready_since = 0] ELSE cloud
  /\ UNCHANGED request_vars

\* a slip: the endpoint loop sleeps as long as the index loop
PollEndpoint_oversleeps(latency, answered) ==
  /\ nb01.pc = "wait_endpoint"
  /\ nb01.now <= nb01.stop_time
  /\ IF ~answered THEN nb01' = Abort(nb01, "KeyError 'state'")
     ELSE IF cloud.serving = "NOT_READY"
     THEN nb01' = [nb01 EXCEPT !.status = cloud.serving, !.polls = @ + 1, !.observed_at = nb01.now,
                               !.now = @ + latency + index_sleep]
     ELSE nb01' = [nb01 EXCEPT !.status = cloud.serving, !.polls = 0, !.now = 0, !.observed_at = 0,
                               !.waiting = FALSE, !.pc = "test_endpoint"]
  /\ cloud' = IF answered /\ cloud.serving # "NOT_READY" THEN [cloud EXCEPT !.ready_since = 0] ELSE cloud
  /\ UNCHANGED request_vars

\* a slip: if status == 'READY' ends the wait, any other status sleeps
PollEndpoint_ready_only(latency, answered) ==
  /\ nb01.pc = "wait_endpoint"
  /\ nb01.now <= nb01.stop_time
  /\ IF ~answered THEN nb01' = Abort(nb01, "KeyError 'state'")
     ELSE IF cloud.serving # "READY"
     THEN nb01' = [nb01 EXCEPT !.status = cloud.serving, !.polls = @ + 1, !.observed_at = nb01.now,
                               !.now = @ + latency + endpoint_sleep]
     ELSE nb01' = [nb01 EXCEPT !.status = cloud.serving, !.polls = 0, !.now = 0, !.observed_at = 0,
                               !.waiting = FALSE, !.pc = "test_endpoint"]
  /\ cloud' = IF answered /\ cloud.serving = "READY" THEN [cloud EXCEPT !.ready_since = 0] ELSE cloud
  /\ UNCHANGED request_vars

\* one turn of the loop: time.time() <= stop_time, the GET, and then either
\* time.sleep(30) or waiting = False and break
PollEndpoint(latency, answered) ==
  /\ nb01.pc = "wait_endpoint"
  /\ nb01.now <= nb01.stop_time
  /\ IF ~answered THEN nb01' = Abort(nb01, "KeyError 'state'")
     ELSE IF cloud.serving = "NOT_READY"
     THEN nb01' = [nb01 EXCEPT !.status = cloud.serving, !.polls = @ + 1, !.observed_at = nb01.now,
                               !.now = @ + latency + endpoint_sleep]
     ELSE nb01' = [nb01 EXCEPT !.status = cloud.serving, !.polls = 0, !.now = 0, !.observed_at = 0,
                               !.waiting = FALSE, !.pc = "test_endpoint"]
  /\ cloud' = IF answered /\ cloud.serving # "NOT_READY" THEN [cloud EXCEPT !.ready_since = 0] ELSE cloud
  /\ UNCHANGED request_vars

\* the loop is left with time.time() > stop_time: if waiting: raise
EndpointWaitExpired ==
  /\ nb01.pc = "wait_endpoint"
  /\ nb01.now > nb01.stop_time
  /\ nb01' = IF nb01.waiting
             THEN Abort(nb01, "Timeout expired waiting for endpoint")
             ELSE [nb01 EXCEPT !.pc = "test_endpoint"]
  /\ UNCHANGED cloud
  /\ UNCHANGED request_vars

\* the endpoint is called with the testing payload
TestTheEndpoint(status_code) ==
  /\ nb01.pc = "test_endpoint"
  /\ nb01' = IF status_code = 200
             THEN [Issue(nb01, "POST invocations") EXCEPT !.pc = "enable_cdf"]
             ELSE Abort(Issue(nb01, "POST invocations"), "Request failed")
  /\ UNCHANGED cloud
  /\ UNCHANGED request_vars

\* a slip: the ALTER TABLE is left out
EnableTheChangeLog_skipped(done) ==
  /\ nb01.pc = "enable_cdf"
  /\ nb01' = [nb01 EXCEPT !.pc = "vs_endpoint"]
  /\ UNCHANGED cloud
  /\ UNCHANGED request_vars

\* ALTER TABLE products SET TBLPROPERTIES (delta.enableChangeDataFeed = true)
EnableTheChangeLog(done) ==
  /\ nb01.pc = "enable_cdf"
  /\ IF done
     THEN /\ nb01' = [Issue(nb01, "ALTER TABLE") EXCEPT !.pc = "vs_endpoint"]
          /\ cloud' = [cloud EXCEPT !.cdf = TRUE]
     ELSE /\ nb01' = Abort(Issue(nb01, "ALTER TABLE"), "AnalysisException")
          /\ UNCHANGED cloud
  /\ UNCHANGED request_vars

\* get_endpoint under try/except, create_endpoint if it raised
CreateVectorSearchEndpoint(found, created) ==
  /\ nb01.pc = "vs_endpoint"
  /\ found => cloud.vs_endpoint
  /\ created => ~cloud.vs_endpoint
  /\ LET looked == [Issue(nb01, "get_endpoint") EXCEPT !.endpoint_exists = found] IN
     IF found
     THEN nb01' = [looked EXCEPT !.pc = "vs_index"] /\ UNCHANGED cloud
     ELSE IF created
     THEN /\ nb01' = [Issue(looked, "create_endpoint") EXCEPT !.pc = "vs_index"]
          /\ cloud' = [cloud EXCEPT !.vs_endpoint = TRUE]
     ELSE nb01' = Abort(Issue(looked, "create_endpoint"), "Exception") /\ UNCHANGED cloud
  /\ UNCHANGED request_vars

\* a slip: the index is created whatever the lookup found
CreateVectorSearchIndex_unguarded(found, created) ==
  /\ nb01.pc = "vs_index"
  /\ found => cloud.index # "absent"
  /\ LET looked == [Issue(nb01, "get_index") EXCEPT !.index_exists = found] IN
     /\ nb01' = [Issue(looked, "create_delta_sync_index") EXCEPT !.pc = "index_wait"]
     /\ cloud' = [cloud EXCEPT !.index = "syncing"]
  /\ UNCHANGED request_vars

\* get_index under try/except, create_delta_sync_index if it raised
CreateVectorSearchIndex(found, created) ==
  /\ nb01.pc = "vs_index"
  /\ found => cloud.index # "absent"
  /\ created => cloud.index = "absent"
  /\ LET looked == [Issue(nb01, "get_index") EXCEPT !.index_exists = found] IN
     IF found
     THEN nb01' = [looked EXCEPT !.pc = "index_wait"] /\ UNCHANGED cloud
     ELSE IF created
     THEN /\ nb01' = [Issue(looked, "create_delta_sync_index") EXCEPT !.pc = "index_wait"]
          /\ cloud' = [cloud EXCEPT !.index = "syncing"]
     ELSE nb01' = Abort(Issue(looked, "create_delta_sync_index"), "Exception") /\ UNCHANGED cloud
  /\ UNCHANGED request_vars

\* timeout_seconds, stop_time and waiting are set and idx is looked up
StartIndexWait(found) ==
  /\ nb01.pc = "index_wait"
  /\ found => cloud.index # "absent"
  /\ nb01' = IF found
             THEN [Issue(nb01, "get_index") EXCEPT !.pc = "wait_index", !.now = 0,
                     !.stop_time = index_timeout_seconds, !.waiting = TRUE, !.polls = 0]
             ELSE Abort(Issue(nb01, "get_index"), "Exception")
  /\ UNCHANGED cloud
  /\ UNCHANGED request_vars

\* one turn of the loop: time.time() <= stop_time, idx.describe(), and then
\* either waiting = False and break or time.sleep(60)
PollIndex(latency, answered) ==
  /\ nb01.pc = "wait_index"
  /\ nb01.now <= nb01.stop_time
  /\ IF ~answered THEN nb01' = Abort(nb01, "Exception")
     ELSE IF cloud.index = "ready"
     THEN nb01' = [nb01 EXCEPT !.is_ready = TRUE, !.polls = 0, !.now = 0, !.observed_at = 0,
                               !.waiting = FALSE, !.pc = "search"]
     ELSE nb01' = [nb01 EXCEPT !.is_ready = FALSE, !.polls = @ + 1, !.observed_at = nb01.now,
                               !.now = @ + latency + index_sleep]
  /\ cloud' = IF answered /\ cloud.index = "ready" THEN [cloud EXCEPT !.ready_since = 0] ELSE cloud
  /\ UNCHANGED request_vars

\* a slip: the 'if waiting: raise' after the index loop is left out
IndexWaitExpired_silent ==
  /\ nb01.pc = "wait_index"
  /\ nb01.now > nb01.stop_time
  /\ nb01' = [nb01 EXCEPT !.pc = "search"]
  /\ UNCHANGED cloud
  /\ UNCHANGED request_vars

\* the loop is left with time.time() > stop_time: if waiting: raise
IndexWaitExpired ==
  /\ nb01.pc = "wait_index"
  /\ nb01.now > nb01.stop_time
  /\ nb01' = IF nb01.waiting
             THEN Abort(nb01, "Timeout expired waiting for index")
             ELSE [nb01 EXCEPT !.pc = "search"]
  /\ UNCHANGED cloud
  /\ UNCHANGED request_vars

\* idx.similarity_search(query_text="winter boots", ...)
LocateRelevantContent(done) ==
  /\ nb01.pc = "search"
  /\ nb01' = IF done
             THEN [Issue(nb01, "similarity_search") EXCEPT !.pc = "done"]
             ELSE Abort(Issue(nb01, "similarity_search"), "Exception")
  /\ UNCHANGED cloud
  /\ UNCHANGED request_vars

\* the serving endpoint comes up, or goes back to not ready, while waited
\* for: right after the last poll or right before the next
ServingChanges ==
  /\ nb01.pc = "wait_endpoint"
  /\ \E state \in ReadyStates \ {cloud.serving}, t \in {nb01.observed_at, nb01.now} :
       cloud' = [cloud EXCEPT !.serving = state,
                              !.ready_since = IF state = "NOT_READY" THEN 0
                                              ELSE IF cloud.serving # "NOT_READY" THEN @
                                              ELSE t]
  /\ UNCHANGED nb01
  /\ UNCHANGED request_vars

\* the index finishes its sync, or starts another, while waited for: right
\* after the last poll or right before the next
IndexChanges ==
  /\ nb01.pc = "wait_index"
  /\ \E t \in {nb01.observed_at, nb01.now} :
       cloud' = [cloud EXCEPT !.index = IF @ = "ready" THEN "syncing" ELSE "ready",
                              !.ready_since = IF cloud.index = "ready" THEN 0 ELSE t]
  /\ UNCHANGED nb01
  /\ UNCHANGED request_vars

\* the next statement of the notebook
RunCell ==
  \/ \E deleted \in BOOLEAN : DropIndex(deleted)
  \/ \E done \in BOOLEAN : PersistAsDeltaLakeTable(done)
  \/ \E get_status, post_status \in StatusCodes : DeployModelServingEndpoint(get_status, post_status)
  \/ \E latency \in Latencies, answered \in BOOLEAN : PollEndpoint(latency, answered)
  \/ EndpointWaitExpired
  \/ \E status_code \in StatusCodes : TestTheEndpoint(status_code)
  \/ \E done \in BOOLEAN : EnableTheChangeLog(done)
  \/ \E found, created \in BOOLEAN : CreateVectorSearchEndpoint(found, created)
  \/ \E found, created \in BOOLEAN : CreateVectorSearchIndex(found, created)
  \/ \E found \in BOOLEAN : StartIndexWait(found)
  \/ \E latency \in Latencies, answered \in BOOLEAN : PollIndex(latency, answered)
  \/ IndexWaitExpired
  \/ \E done \in BOOLEAN : LocateRelevantContent(done)

NextSetup == RunCell \/ ServingChanges \/ IndexChanges

SpecSetup == InitSetup /\ [][NextSetup]_vars

\* the notebook's first run, in a workspace without the serving endpoint
FirstRun == InitSetup /\ cloud.serving = "absent"

\* the notebook's statements are run one after the other and every call it
\* makes returns or raises
FairSetup == FirstRun /\ [][NextSetup]_vars /\ WF_vars(RunCell)

\* ------------------------------------------------------------- model version
\* 01_Prepare_Product_Search_Data.py, Get Registered Model to Version.  A
\* ModelVersion's version is a str when the registry is reached over REST
\* (Unity Catalog, as here) and an int from a local SQL store; n is its number.
RECURSIVE str_of_int(_)
\* str(n), as the sequence of its decimal digits
str_of_int(n) == IF n < 10 THEN <<n>> ELSE str_of_int(n \div 10) \o <<n % 10>>

\* a < b on two str: the first differing character decides, a proper prefix is less
str_lt(a, b) ==
  \/ \E i \in 1..Min({Len(a), Len(b)}) :
       /\ a[i] < b[i]
       /\ \A j \in 1..(i - 1) : a[j] = b[j]
  \/ Len(a) < Len(b) /\ SubSeq(b, 1, Len(a)) = a

\* x.version < y.version, as Python compares the two keys
version_lt(x, y) ==
  IF x.t = "str" THEN str_lt(str_of_int(x.n), str_of_int(y.n)) ELSE x.n < y.n

RECURSIVE sorted_versions(_)
\* sorted(model_versions, key=lambda x: x.version, reverse=True)
sorted_versions(model_versions) ==
  IF model_versions = {} THEN << >>
  ELSE LET top == CHOOSE x \in model_versions :
                    \A y \in model_versions \ {x} : version_lt(y, x)
       IN <<top>> \o sorted_versions(model_versions \ {top})

\* what search_model_versions can return: some of the versions 1..MaxVersion
\* of the model, at least the one just registered
Registries ==
  {{[t |-> type, n |-> n] : n \in ns} :
     type \in {"str", "int"}, ns \in (SUBSET (1..MaxVersion)) \ {{}}}

InitVersions ==
  /\ pc = [r \in Reqs |-> "off"]
  /\ variant = [r \in Reqs |-> "none"]
  /\ items = [r \in Reqs |-> << >>]
  /\ num = [r \in Reqs |-> 0]
  /\ prompt = [r \in Reqs |-> << >>]
  /\ response = [r \in Reqs |-> NoResponse]
  /\ general = [r \in Reqs |-> NoVal]
  /\ query = [r \in Reqs |-> << >>]
  /\ results = [r \in Reqs |-> NoResults]
  /\ calls = [r \in Reqs |-> << >>]
  /\ outcome = [r \in Reqs |-> NoOutcome]
  /\ vs_client = [r \in Reqs |-> "none"]
  /\ idx = [r \in Reqs |-> "none"]
  /\ config = Environment
  /\ cloud = NoCloud
  /\ \E registry \in Registries :
       nb01 = [pc |-> "get_version", model_versions |-> registry, model_version |-> 0]

\* latest_version = sorted_versions[0]; model_version = latest_version.version
GetRegisteredModelVersion ==
  /\ nb01.pc = "get_version"
  /\ LET latest_version == sorted_versions(nb01.model_versions)[1] IN
     nb01' = [nb01 EXCEPT !.pc = "config_endpoint", !.model_version = latest_version.n]
  /\ UNCHANGED cloud
  /\ UNCHANGED request_vars

NextVersions == GetRegisteredModelVersion

SpecVersions == InitVersions /\ [][NextVersions]_vars

\* ------------------------------------------------------------- properties
\* the error classes of the specification, as the exceptions the code raises
InvalidInput == {"IndexError", "TypeError"}

MalformedResponse == {"ValueError", "JSONDecodeError", "KeyError 'next_items'"}

UpstreamUnavailable == {"ConnectionError", "Exception", "KeyError 'choices'"}

\* a run of the two-stage pipeline (LLM4rec, or the notebook's cells)
Orchestrated(r) == variant[r] \in {"app", "notebook"}

Failed(r) == pc[r] = "done" /\ outcome[r].kind \in {"http500", "raised"}

Ops(r) == [i \in 1..Len(calls[r]) |-> calls[r][i].op]

IsPrefix(a, b) == Len(a) <= Len(b) /\ SubSeq(b, 1, Len(a)) = a

\* C1: a successful request returns the text column of every hit of the
\* similarity search, one element per hit, in the order of the hits.
C1_TextsInRankedOrder ==
  \A r \in Reqs :
    (Orchestrated(r) /\ outcome[r].kind = "ok") =>
      /\ results[r].kind = "rows"
      /\ Len(outcome[r].result) = Len(results[r].data_array)
      /\ \A j \in 1..Len(results[r].data_array) :
           outcome[r].result[j] = results[r].data_array[j][2]

\* the handler returned five texts of an index that did not rank by id
C1_Witness ==
  \E r \in Reqs :
    /\ variant[r] = "app" /\ outcome[r].kind = "ok"
    /\ Len(outcome[r].result) = n_items
    /\ results[r].data_array[1][1] # "id1"

\* C2: whenever the search answers with rows, be they num_items, fewer or
\* none, the request succeeds with exactly as many elements.
C2_LengthIsHitCount ==
  \A r \in Reqs :
    (Orchestrated(r) /\ results[r].kind = "rows") =>
      /\ outcome[r].kind = "ok"
      /\ Len(outcome[r].result) = Len(results[r].data_array)
      /\ Len(outcome[r].result) <= num[r]

\* an empty index: no hit, an empty list returned, no error
C2_Witness ==
  \E r \in Reqs :
    /\ variant[r] = "app" /\ results[r].kind = "rows"
    /\ results[r].data_array = << >>
    /\ outcome[r] = Returned(<< >>)

\* C3: the external calls of a request are issued in the order LLM, get_index,
\* similarity_search; the index is called only once the LLM has answered with
\* a content whose text through the last '}' parses; a content without '}'
\* fails the request with MalformedResponse after the LLM call alone.
C3_LLMThenVectorIndex ==
  \A r \in Reqs :
    Orchestrated(r) =>
      /\ IsPrefix(Ops(r), <<"llm", "get_index", "similarity_search">>)
      /\ Len(calls[r]) >= 2 =>
           /\ response[r].kind = "content"
           /\ HasChar(response[r].content, "}")
           /\ json_loads(json_text_of(response[r].content)).ok
      /\ (response[r].kind = "content" /\ ~HasChar(response[r].content, "}")) =>
           /\ Failed(r)
           /\ outcome[r].err \in MalformedResponse
           /\ Ops(r) = <<"llm">>

\* the handler got a content without '}' and answered HTTP 500
C3_Witness ==
  \E r \in Reqs :
    /\ variant[r] = "app" /\ response[r].kind = "content"
    /\ ~HasChar(response[r].content, "}")
    /\ outcome[r].kind = "http500"

\* C4: with an empty item list no prompt is built and no external call is ever
\* issued; once the prompt builder has run the request has failed with
\* InvalidInput.
C4_EmptyItemsFailFirst ==
  \A r \in Reqs :
    (variant[r] # "none" /\ items[r] = << >>) =>
      /\ calls[r] = << >>
      /\ prompt[r] = << >>
      /\ pc[r] \in {"client", "prompt", "done"}
      /\ pc[r] = "done" =>
           /\ outcome[r].kind \in {"http500", "raised"}
           /\ \/ outcome[r].err \in InvalidInput
              \/ variant[r] # "nb02" /\ outcome[r] = Escaped("Exception")

\* the handler was posted an empty list and answered HTTP 500 for the IndexError
C4_Witness ==
  \E r \in Reqs :
    /\ variant[r] = "app" /\ items[r] = << >> /\ pc[r] = "done"
    /\ outcome[r] = Raised("app", "IndexError")
    /\ calls[r] = << >>

\* the parser raised: rindex found no '}' or json.loads rejected the text
ParseFailed(r) == Failed(r) /\ outcome[r].err \in {"ValueError", "JSONDecodeError"}

\* text ends in a well-formed JSON object
EndsInObject(text) ==
  \E k \in 1..Len(text) : text[k] = "{" /\ json_loads(SubSeq(text, k, Len(text))).ok

\* C5 (as claimed): a content that ends in a well-formed JSON object, whatever
\* precedes the object, is parsed rather than rejected.
C5_ProseThenObjectParses ==
  \A r \in Reqs :
    (Orchestrated(r) /\ response[r].kind = "content" /\ EndsInObject(response[r].content)) =>
      /\ ~ParseFailed(r)
      /\ json_loads(json_text_of(response[r].content)).ok

\* C6: a content without '}' raises ValueError, a content whose text through
\* the last '}' is not JSON raises JSONDecodeError; either way the request has
\* failed with MalformedResponse, nothing was returned and the index not called.
C6_MalformedIsAnError ==
  \A r \in Reqs :
    (Orchestrated(r) /\ response[r].kind = "content") =>
      LET raw == response[r].content IN
      /\ ~HasChar(raw, "}") =>
           /\ Failed(r) /\ outcome[r].err = "ValueError"
           /\ general[r] = NoVal /\ Ops(r) = <<"llm">>
      /\ (HasChar(raw, "}") /\ ~json_loads(json_text_of(raw)).ok) =>
           /\ Failed(r) /\ outcome[r].err = "JSONDecodeError"
           /\ general[r] = NoVal /\ Ops(r) = <<"llm">>
      /\ Failed(r) /\ outcome[r].err \in {"ValueError", "JSONDecodeError"} =>
           outcome[r].err \in MalformedResponse

\* the handler got a content with a '}' that is not JSON through it
C6_Witness ==
  \E r \in Reqs :
    /\ variant[r] = "app" /\ response[r].kind = "content"
    /\ HasChar(response[r].content, "}")
    /\ outcome[r] = Raised("app", "JSONDecodeError")

\* C7: when the content is a well-formed JSON object up to its last '}', what
\* follows that '}' is dropped and the object is what the parser reads: the
\* notebook returns its text, app.py the value it holds under 'next_items'.
C7_ThroughTheLastBrace ==
  \A r \in Reqs :
    (Orchestrated(r) /\ response[r].kind = "content") =>
      LET raw == response[r].content IN
      \A k \in 1..Len(raw) :
        ( /\ raw[k] = "}"
          /\ ~HasChar(SubSeq(raw, k + 1, Len(raw)), "}")
          /\ json_loads(SubSeq(raw, 1, k)).ok ) =>
          LET obj == json_loads(SubSeq(raw, 1, k)).val IN
          /\ ~ParseFailed(r)
          /\ variant[r] = "notebook" =>
               general[r] = [t |-> "str", s |-> SubSeq(raw, 1, k)]
          /\ (variant[r] = "app" /\ HasKey(obj, next_items)) =>
               /\ general[r].t # "none"
               /\ PyRepr(general[r]) = PyRepr(DictGet(obj, next_items))

\* an object that holds a nested object, followed by commentary, was parsed
C7_Witness ==
  \E r \in Reqs :
    /\ variant[r] = "app" /\ response[r].kind = "content"
    /\ pc[r] = "index_wait"
    /\ LET raw == response[r].content IN
       /\ raw[Len(raw)] # "}"
       /\ Cardinality({i \in 1..Len(raw) : raw[i] = "}"}) >= 2

RECURSIVE HoldsInOrder(_, _, _, _)
HoldsInOrder(text, i, its, j) ==
  IF j > Len(its) THEN TRUE
  ELSE IF i > Len(text) THEN FALSE
  ELSE IF text[i] = its[j] THEN HoldsInOrder(text, i + 1, its, j + 1)
  ELSE HoldsInOrder(text, i + 1, its, j)

\* text asks for a JSON object with the key 'next_items'
AsksForNextItems(text) ==
  \E i \in 1..(Len(text) - 4) :
    /\ text[i] \in {"Express your response as a JSON object with a key of",
                    "Expresse sua resposta como um objeto JSON com uma chave"}
    /\ SubSeq(text, i + 1, i + 4) = <<" ", "'", "next_items", "'">>

\* the prompt builder has been called
PromptBuilt(r) ==
  /\ variant[r] # "none"
  /\ pc[r] \notin {"client", "prompt"}
  /\ ~(pc[r] = "done" /\ calls[r] = << >> /\ outcome[r].err = "Exception")

\* C9: the prompt built from a non-empty item list holds every item, in the
\* order of the list, and the request for a JSON object with the key
\* 'next_items'; it is the text sent to the LLM.
C9_PromptHoldsItemsInOrder ==
  \A r \in Reqs :
    (PromptBuilt(r) /\ items[r] # << >>) =>
      /\ prompt[r] # << >>
      /\ HoldsInOrder(prompt[r], 1, items[r], 1)
      /\ \A i \in 1..Len(items[r]) :
           Cardinality({j \in 1..Len(prompt[r]) : prompt[r][j] = items[r][i]})
             >= Cardinality({j \in 1..Len(items[r]) : items[r][j] = items[r][i]})
      /\ AsksForNextItems(prompt[r])
      /\ calls[r][1] = Call("llm", prompt[r], max_tokens)

\* a prompt for three items, the same item twice among them
C9_Witness ==
  \E r \in Reqs :
    /\ variant[r] = "app" /\ pc[r] = "llm_wait"
    /\ Len(items[r]) = 3 /\ items[r][1] = items[r][3] /\ items[r][1] # items[r][2]

\* C10 (as claimed): the handler ends every request with the list or with an
\* HTTP 500 that carries the error's message.
C10_ListOrHttp500 ==
  \A r \in Reqs :
    (variant[r] = "app" /\ pc[r] = "done") => outcome[r].kind \in {"ok", "http500"}

\* the LLM stage of the request has failed: the call or the parser raised
LLMStageFailed(r) ==
  \/ response[r].kind \notin {"none", "content"}
  \/ response[r].kind = "content" /\ general[r].t = "none"

\* the Vector Index stage of the request has failed: get_index or the search raised
VectorStageFailed(r) == idx[r] = "Exception" \/ results[r].kind = "Exception"

\* C11: a request answers with product texts only when the LLM stage and the
\* Vector Index stage have both succeeded; when either has failed the request
\* has failed and carries no list, the general suggestions of a succeeded LLM
\* stage included.
C11_NoPartialResults ==
  \A r \in Reqs :
    Orchestrated(r) =>
      /\ outcome[r].kind = "ok" =>
           /\ response[r].kind = "content" /\ general[r].t # "none"
           /\ idx[r] = "found" /\ results[r].kind = "rows"
           /\ \A j \in 1..Len(outcome[r].result) :
                \E i \in 1..Len(results[r].data_array) :
                  outcome[r].result[j] = results[r].data_array[i][2]
      /\ (LLMStageFailed(r) \/ VectorStageFailed(r)) =>
           /\ Failed(r)
           /\ outcome[r].result = << >>
      /\ Failed(r) => outcome[r].result = << >>

\* the LLM stage gave two suggestions, the search raised, the handler answered
\* HTTP 500 without a list
C11_Witness ==
  \E r \in Reqs :
    /\ variant[r] = "app" /\ general[r].t = "arr" /\ Len(general[r].a) = 2
    /\ results[r].kind = "Exception"
    /\ outcome[r] = Raised("app", "Exception")
    /\ outcome[r].result = << >>

\* the calls of request r to service op
CallsTo(r, op) == {i \in 1..Len(calls[r]) : calls[r][i].op = op}

\* C12: a request issues at most one call to the LLM, one get_index and one
\* similarity search; when one of them has raised, the request has failed
\* with UpstreamUnavailable and its calls end with the one that raised.
C12_NoRetries ==
  \A r \in Reqs :
    Orchestrated(r) =>
      /\ Cardinality(CallsTo(r, "llm")) <= 1
      /\ Cardinality(CallsTo(r, "get_index")) <= 1
      /\ Cardinality(CallsTo(r, "similarity_search")) <= 1
      /\ response[r].kind \notin {"none", "content"} =>
           /\ Failed(r) /\ outcome[r].err \in UpstreamUnavailable
           /\ Ops(r) = <<"llm">>
      /\ idx[r] = "Exception" =>
           /\ Failed(r) /\ outcome[r].err \in UpstreamUnavailable
           /\ Ops(r) = <<"llm", "get_index">>
      /\ results[r].kind = "Exception" =>
           /\ Failed(r) /\ outcome[r].err \in UpstreamUnavailable
           /\ Ops(r) = <<"llm", "get_index", "similarity_search">>

\* the POST to the LLM raised ConnectionError: HTTP 500 after that one call
C12_Witness ==
  \E r \in Reqs :
    /\ variant[r] = "app" /\ response[r].kind = "ConnectionError"
    /\ outcome[r] = Raised("app", "ConnectionError")
    /\ Len(calls[r]) = 1

\* the strings of a list of strings, one after the other
Suggestions(v) ==
  IF v.t = "arr" /\ \A i \in 1..Len(v.a) : v.a[i].t = "str"
  THEN Join(<< >>, [i \in 1..Len(v.a) |-> v.a[i].s])
  ELSE << >>

\* C17: a request that succeeded has searched the index exactly once: the
\* query text is str() of all the general suggestions together, holding each
\* of them in order, the columns asked for are id and text, and num_results
\* is the number of items asked for.
C17_OneSearchForAllItems ==
  \A r \in Reqs :
    (Orchestrated(r) /\ outcome[r].kind = "ok") =>
      /\ Cardinality(CallsTo(r, "similarity_search")) = 1
      /\ \A i \in CallsTo(r, "similarity_search") :
           /\ general[r].t # "none"
           /\ calls[r][i].text = PyStr(general[r])
           /\ calls[r][i].text = query[r]
           /\ HoldsInOrder(calls[r][i].text, 1, Suggestions(general[r]), 1)
           /\ general[r].t = "arr" =>
                /\ calls[r][i].text[1] = "["
                /\ calls[r][i].text[Len(calls[r][i].text)] = "]"
           /\ calls[r][i].columns = <<"id", "text">>
           /\ calls[r][i].limit = num[r]
           /\ variant[r] = "app" => calls[r][i].limit = n_items

\* the handler searched once for two suggestions and returned five texts
C17_Witness ==
  \E r \in Reqs :
    /\ variant[r] = "app" /\ outcome[r].kind = "ok"
    /\ general[r].t = "arr" /\ Len(general[r].a) = 2
    /\ Len(outcome[r].result) = n_items
    /\ Len(calls[r]) = 3

\* C18: no step of a request writes the configuration (workspace URL,
\* endpoint URL, token, index identifiers) or anything that outlives the
\* request: the setup's resources and the other request's inputs and results
\* are as they were, and a finished request is never touched again.
C18_RequestsWriteNothing ==
  [][ /\ config' = config /\ config = Environment
      /\ nb01' = nb01 /\ cloud' = cloud
      /\ \A r \in Reqs :
           pc[r] \in {"off", "done"} =>
             /\ pc'[r] = pc[r] /\ items'[r] = items[r] /\ calls'[r] = calls[r]
             /\ outcome'[r] = outcome[r] ]_vars

\* a request has been answered with a list and the configuration is the one
\* the process started with
C18_Witness ==
  \E r \in Reqs :
    /\ variant[r] = "app" /\ pc[r] = "done" /\ outcome[r].kind = "ok"
    /\ Len(calls[r]) = 3
    /\ config = Environment

\* requests r and q were given the same item list and the same answers by
\* the client constructor, the LLM, get_index and the search
SameInputs(r, q) ==
  /\ variant[r] = variant[q] /\ items[r] = items[q] /\ num[r] = num[q]
  /\ vs_client[r] = vs_client[q] /\ response[r] = response[q]
  /\ idx[r] = idx[q] /\ results[r] = results[q]

\* C13: two requests with the same item list that got the same answers from
\* the LLM and the Vector Index are at the same place with the same prompt,
\* the same calls issued and the same outcome, list or failure, whichever of
\* them ran first and however their steps interleaved.
C13_SameInputsSameOutcome ==
  \A r, q \in Reqs :
    (variant[r] = "app" /\ pc[r] = pc[q] /\ SameInputs(r, q)) =>
      /\ prompt[r] = prompt[q]
      /\ query[r] = query[q]
      /\ calls[r] = calls[q]
      /\ outcome[r] = outcome[q]

\* both requests ended with the same list of five texts
C13_Witness ==
  /\ \A r \in Reqs : variant[r] = "app" /\ pc[r] = "done" /\ outcome[r].kind = "ok"
  /\ SameInputs(1, 2)
  /\ Len(outcome[1].result) = n_items
  /\ outcome[1] = outcome[2]

\* the handler run alone: what it answers to the item list its, given how the
\* client constructor (made), the LLM (resp), get_index (ix) and the search
\* (res) answered it
Alone(v, its, made, resp, ix, res) ==
  LET p == _get_prompt(v, its) IN
  IF made = "Exception" THEN Escaped("Exception")
  ELSE IF p.raised # "" THEN Raised(v, p.raised)
  ELSE IF resp.kind # "content" THEN Raised(v, resp.kind)
  ELSE IF ~parse_general(v, resp.content).ok THEN Raised(v, parse_general(v, resp.content).err)
  ELSE IF ix = "Exception" THEN Raised(v, "Exception")
  ELSE IF res.kind = "rows" THEN Returned(specific_items(res.data_array))
  ELSE Raised(v, res.kind)

\* C14: with two requests in flight, what each has built, sent and answered
\* is what its own item list and the answers to its own calls determine: the
\* prompt of its items, the search for its own suggestions, and at the end the
\* outcome of the same request run alone.
C14_OwnInputsOnly ==
  \A r \in Reqs :
    variant[r] = "app" =>
      /\ prompt[r] \in {<< >>, _get_prompt("app", items[r]).text}
      /\ Len(calls[r]) >= 1 => calls[r][1] = Call("llm", _get_prompt("app", items[r]).text, max_tokens)
      /\ idx[r] = "found" =>
           LET own == parse_general("app", response[r].content) IN
           /\ own.ok
           /\ query[r] = PyStr(own.val)
           /\ calls[r][3] = similarity_search(PyStr(own.val), <<"id", "text">>, n_items)
      /\ pc[r] = "done" =>
           outcome[r] = Alone("app", items[r], vs_client[r], response[r], idx[r], results[r])

\* one request was answered with a list for ['boots', 'gloves'] while the
\* other, with another item and another answer of the LLM, waits for its search
C14_Witness ==
  \E r, q \in Reqs :
    /\ pc[r] = "done" /\ outcome[r].kind = "ok" /\ Len(outcome[r].result) = n_items
    /\ pc[q] = "search_wait"
    /\ items[r] # items[q]
    /\ query[r] # query[q]

\* the notebook has gone on after the wait for the serving endpoint
PastEndpointWait ==
  \/ nb01.pc \in {"test_endpoint", "enable_cdf", "vs_endpoint", "vs_index", "index_wait", "wait_index", "search", "done"}
  \/ nb01.pc = "aborted" /\ \E i \in 1..Len(nb01.calls) : nb01.calls[i] = "POST invocations"

\* the notebook has gone on after the wait for the index
PastIndexWait ==
  \/ nb01.pc \in {"search", "done"}
  \/ nb01.pc = "aborted" /\ \E i \in 1..Len(nb01.calls) : nb01.calls[i] = "similarity_search"

\* what holds of the two wait loops in every state
LoopsBounded ==
  /\ nb01.pc = "wait_endpoint" =>
       /\ nb01.waiting /\ nb01.stop_time = endpoint_timeout_seconds
       /\ nb01.polls <= (endpoint_timeout_seconds \div endpoint_sleep) + 1
       /\ nb01.now >= nb01.polls * endpoint_sleep
  /\ nb01.pc = "wait_index" =>
       /\ nb01.waiting /\ nb01.stop_time = index_timeout_seconds
       /\ nb01.polls <= (index_timeout_seconds \div index_sleep) + 1
       /\ nb01.now >= nb01.polls * index_sleep
  /\ PastEndpointWait => nb01.status \notin {"", "NOT_READY"}
  /\ PastIndexWait => (nb01.is_ready /\ ~nb01.waiting)
  /\ nb01.err = "Timeout expired waiting for endpoint" =>
       /\ nb01.pc = "aborted" /\ nb01.waiting
       /\ nb01.now > nb01.stop_time
       /\ nb01.status = "NOT_READY"
       /\ ~PastEndpointWait
  /\ nb01.err = "Timeout expired waiting for index" =>
       /\ nb01.pc = "aborted" /\ nb01.waiting
       /\ nb01.now > nb01.stop_time
       /\ ~nb01.is_ready
       /\ ~PastIndexWait

\* C15: each wait loop of the setup ends, after at most timeout / sleep + 1
\* polls: the notebook goes on only after a poll has observed readiness, and
\* the timeout error is raised only once the clock has passed stop_time with
\* no poll having observed readiness, after which no later step runs.
C15_PollingLoopsEnd ==
  /\ []LoopsBounded
  /\ (nb01.pc = "wait_endpoint") ~> (nb01.pc # "wait_endpoint")
  /\ (nb01.pc = "wait_index") ~> (nb01.pc # "wait_index")

\* the endpoint was observed ready, and the index then polled 121 times, a
\* minute apart, until the timeout error was raised
C15_Witness ==
  /\ nb01.pc = "aborted" /\ nb01.err = "Timeout expired waiting for index"
  /\ nb01.status = "READY"
  /\ nb01.polls = (index_timeout_seconds \div index_sleep) + 1
  /\ nb01.now > index_timeout_seconds

\* the places of op among the calls of the notebook
Issued(op) == {i \in 1..Len(nb01.calls) : nb01.calls[i] = op}

\* C16: when the notebook calls create_delta_sync_index it has run the ALTER
\* TABLE that enables the change data feed before, with the table not replaced
\* in between, and the products table has its change data feed enabled.
C16_ChangeFeedBeforeIndex ==
  \A i \in Issued("create_delta_sync_index") :
    /\ \E j \in Issued("ALTER TABLE") :
         /\ j < i
         /\ \A k \in Issued("CREATE OR REPLACE TABLE") : k < j
    /\ cloud.table = "products"
    /\ cloud.cdf

\* the index was created in a workspace whose products table had no change
\* data feed when the notebook got to the ALTER TABLE
C16_Witness ==
  /\ nb01.pc = "index_wait"
  /\ Issued("create_delta_sync_index") # {}
  /\ cloud.index = "syncing" /\ cloud.cdf

\* C19: when the GET for the serving endpoint answered 200 no POST is sent;
\* when it answered anything else exactly one POST is sent; and when that
\* POST answered anything but 200 the notebook has raised with the POST its
\* last call and no poll of the readiness loop made.
C19_DeployGuarded ==
  /\ Cardinality(Issued("GET serving-endpoints")) <= 1
  /\ Cardinality(Issued("POST serving-endpoints")) <= 1
  /\ Issued("GET serving-endpoints") # {} =>
       /\ nb01.status_code = 200 => Issued("POST serving-endpoints") = {}
       /\ nb01.status_code # 200 =>
            /\ Cardinality(Issued("POST serving-endpoints")) = 1
            /\ \A i \in Issued("GET serving-endpoints"), j \in Issued("POST serving-endpoints") : j = i + 1
            /\ nb01.deploy_status # 200 =>
                 /\ nb01.pc = "aborted" /\ nb01.err = "Request failed"
                 /\ nb01.calls[Len(nb01.calls)] = "POST serving-endpoints"
                 /\ nb01.polls = 0 /\ nb01.status = "" /\ ~nb01.waiting
  /\ Issued("GET serving-endpoints") = {} => Issued("POST serving-endpoints") = {}

\* the GET answered 404, the POST 404 as well, and the notebook raised
C19_Witness ==
  /\ nb01.pc = "aborted" /\ nb01.err = "Request failed"
  /\ nb01.status_code = 404 /\ nb01.deploy_status = 404
  /\ Issued("POST serving-endpoints") # {}
  /\ Issued("POST invocations") = {}

\* C20: create_delta_sync_index is called exactly when the get_index before
\* it raised, and create_endpoint exactly when get_endpoint raised; each at
\* most once, right after its lookup; a lookup that found the index or the
\* endpoint is followed by no create.
C20_CreateOnlyIfLookupFailed ==
  /\ Cardinality(Issued("create_endpoint")) <= 1
  /\ Cardinality(Issued("create_delta_sync_index")) <= 1
  /\ Issued("create_endpoint") # {} <=> (Issued("get_endpoint") # {} /\ ~nb01.endpoint_exists)
  /\ Issued("create_delta_sync_index") # {} <=>
       (\E i \in Issued("get_endpoint") : \E j \in Issued("get_index") : j > i) /\ ~nb01.index_exists
  /\ \A i \in Issued("create_endpoint") : i > 1 /\ nb01.calls[i - 1] = "get_endpoint"
  /\ \A i \in Issued("create_delta_sync_index") : i > 1 /\ nb01.calls[i - 1] = "get_index"
  /\ nb01.index_exists => cloud.index # "absent"
  /\ nb01.endpoint_exists => cloud.vs_endpoint

\* the notebook was run again where the index was still there: both lookups
\* succeeded and nothing was created
C20_Witness ==
  /\ nb01.pc = "index_wait"
  /\ nb01.endpoint_exists /\ nb01.index_exists
  /\ Issued("create_endpoint") = {} /\ Issued("create_delta_sync_index") = {}
  /\ cloud.index = "ready"

\* C21 (as claimed): the version selected for deployment is the numerically
\* greatest of the versions the registry returned, whatever their digit counts.
C21_LatestVersionDeployed ==
  nb01.pc = "config_endpoint" =>
    nb01.model_version = Max({x.n : x \in nb01.model_versions})

\* the list of k items as rendered: the item alone, or item, ', ', item, ...,
\* ', and ', item, three fragments a place but for 'and'
IsRendered(text, its) ==
  LET k == Len(its) IN
  IF k = 1 THEN text = <<its[1]>>
  ELSE /\ Len(text) = 3 * k
       /\ \A i \in 1..(k - 1) : text[3 * i - 2] = its[i]
       /\ \A i \in 1..(k - 2) : text[3 * i - 1] = "," /\ text[3 * i] = " "
       /\ SubSeq(text, 3 * k - 4, 3 * k - 1) = <<",", " ", "and", " ">>
       /\ text[3 * k] = its[k]

\* C22: in the prompt of a non-empty item list, between 'A user bought ' and
\* ' in that order' stands the list as rendered: a single item alone, k >= 2
\* items as the first k-1 joined by ', ' then ', and ' and the last, every
\* item once at its place and nothing else but the separators.
C22_ItemsRendered ==
  \A r \in Reqs :
    (Orchestrated(r) /\ PromptBuilt(r) /\ items[r] # << >>) =>
      LET k == Len(items[r])
          n == IF k = 1 THEN 1 ELSE 3 * k IN
      \E p \in 1..Len(prompt[r]) :
        /\ prompt[r][p] \in {"A user bought", "Um usuario comprou"}
        /\ prompt[r][p + 1] = " "
        /\ Len(prompt[r]) >= p + n + 3
        /\ IsRendered(SubSeq(prompt[r], p + 2, p + n + 1), items[r])
        /\ prompt[r][p + n + 2] = " "
        /\ prompt[r][p + n + 3] \in
             {"in that order. What five items would he/she be likely to purchase next?",
              "nessa ordem. Quais seriam os cinco itens que ele/ela provavelmente compraria em seguida?"}
        /\ Cardinality({j \in (p + 2)..(p + n + 1) : prompt[r][j] \in ItemNames}) = k

\* the notebook built the prompt of two different items
C22_Witness ==
  \E r \in Reqs :
    /\ variant[r] = "notebook" /\ pc[r] = "llm_wait"
    /\ Len(items[r]) = 2 /\ items[r][1] # items[r][2]
    /\ \E j \in 1..Len(prompt[r]) : prompt[r][j] = "and"

\* the step is a poll of the loop at place, answered by the service
Polled(place) == nb01.pc = place /\ nb01' # nb01 /\ nb01'.pc # "aborted"

\* C23: a poll of the endpoint loop that reads 'NOT_READY' sleeps and goes
\* back to the loop, still waiting; a poll that reads anything else leaves the
\* loop with waiting = False, and the timeout error is then not raised.  A
\* poll of the index loop leaves the loop, waiting = False, exactly when the
\* index's ready flag is true, and sleeps otherwise.
C23_AnyOtherStatusEndsWait ==
  [][ /\ Polled("wait_endpoint") =>
           /\ nb01'.status = cloud.serving
           /\ IF cloud.serving = "NOT_READY"
              THEN /\ nb01'.pc = "wait_endpoint" /\ nb01'.waiting
                   /\ nb01'.now >= nb01.now + endpoint_sleep
                   /\ nb01'.polls = nb01.polls + 1
              ELSE /\ nb01'.pc = "test_endpoint" /\ ~nb01'.waiting
                   /\ nb01'.err = ""
      /\ Polled("wait_index") =>
           /\ nb01'.is_ready = (cloud.index = "ready")
           /\ IF cloud.index = "ready"
              THEN nb01'.pc = "search" /\ ~nb01'.waiting /\ nb01'.err = ""
              ELSE /\ nb01'.pc = "wait_index" /\ nb01'.waiting
                   /\ nb01'.now >= nb01.now + index_sleep
                   /\ nb01'.polls = nb01.polls + 1
      /\ (nb01.pc = "wait_endpoint" /\ nb01'.pc = "aborted" /\ nb01'.err = "Timeout expired waiting for endpoint") =>
           nb01.status = "NOT_READY"
      /\ ~nb01.waiting => nb01'.err \notin {"Timeout expired waiting for endpoint"} \ {nb01.err}
    ]_vars

\* the endpoint read neither 'NOT_READY' nor 'READY' and the notebook went on
\* to test it
C23_Witness ==
  /\ nb01.pc = "test_endpoint"
  /\ nb01.status = "UNKNOWN"
  /\ ~nb01.waiting

\* the endpoint has read other than 'NOT_READY' without a break since at
\* least margin seconds before the deadline of its loop
EndpointReadyBy(margin) ==
  cloud.serving \notin {"absent", "NOT_READY"} /\ cloud.ready_since + margin <= nb01.stop_time

\* the index has been ready without a break since at least margin seconds
\* before the deadline of its loop
IndexReadyBy(margin) ==
  cloud.index = "ready" /\ cloud.ready_since + margin <= nb01.stop_time

\* with the resource ready in time, given the margin of each loop, the loop is
\* at a poll within its deadline, which will observe the readiness, and the
\* timeout error has not been raised
ReadyInTimeIsSeen(endpoint_margin, index_margin) ==
  /\ (nb01.pc = "wait_endpoint" /\ EndpointReadyBy(endpoint_margin)) => nb01.now <= nb01.stop_time
  /\ (nb01.pc = "wait_index" /\ IndexReadyBy(index_margin)) => nb01.now <= nb01.stop_time
  /\ nb01.err = "Timeout expired waiting for endpoint" => ~EndpointReadyBy(endpoint_margin)
  /\ nb01.err = "Timeout expired waiting for index" => ~IndexReadyBy(index_margin)

\* C24 (as claimed): a resource that is ready, and stays so, from at least
\* one sleep interval before the deadline is observed ready by a later poll
\* and the timeout error is not raised.
C24_ReadyOneSleepBeforeDeadline == ReadyInTimeIsSeen(endpoint_sleep, index_sleep)

\* C24 (amended): a resource that is ready, and stays so, from at least one
\* sleep interval plus the longest time a poll takes before the deadline is
\* observed ready by a later poll and the timeout error is not raised.
C24_ReadyOneSleepAndPollBeforeDeadline ==
  ReadyInTimeIsSeen(endpoint_sleep + MaxLatency, index_sleep + MaxLatency)

\* the endpoint came up right after a poll, a sleep and a poll's latency
\* before the deadline, and the loop is at its last poll, on the deadline
C24_Witness ==
  /\ nb01.pc = "wait_endpoint"
  /\ cloud.serving = "READY"
  /\ cloud.ready_since = endpoint_timeout_seconds - endpoint_sleep - MaxLatency
  /\ nb01.now = nb01.stop_time

\* the calls of the notebook's cells, in the order of the cells
CellOrder ==
  <<"delete_index", "CREATE OR REPLACE TABLE", "GET serving-endpoints", "POST serving-endpoints",
    "POST invocations", "ALTER TABLE", "get_endpoint", "create_endpoint",
    "get_index", "create_delta_sync_index", "get_index", "similarity_search">>

\* C25: the calls of the setup are issued in the order of its cells.  The
\* similarity search is issued only after a poll found the index ready; the
\* index is created only after a poll found the serving endpoint ready; the
\* index is deleted, an error of the deletion passed over, before the table
\* is replaced; and once the deploy has failed or a wait has timed out no
\* later call is issued.
C25_SetupInOrder ==
  /\ HoldsInOrder(CellOrder, 1, nb01.calls, 1)
  /\ Issued("similarity_search") # {} =>
       /\ nb01.is_ready /\ ~nb01.waiting
       /\ nb01.err # "Timeout expired waiting for index"
  /\ Issued("create_delta_sync_index") # {} =>
       /\ nb01.status \notin {"", "NOT_READY"}
       /\ nb01.err # "Timeout expired waiting for endpoint"
       /\ Issued("POST invocations") # {}
  /\ Issued("CREATE OR REPLACE TABLE") # {} =>
       /\ nb01.calls[1] = "delete_index"
       /\ Issued("CREATE OR REPLACE TABLE") = {2}
  /\ nb01.pc = "create_table" => nb01.calls = <<"delete_index">>
  /\ (nb01.err = "Request failed" /\ Issued("POST invocations") = {}) =>
       /\ nb01.pc = "aborted"
       /\ nb01.calls[Len(nb01.calls)] = "POST serving-endpoints"
  /\ nb01.err = "Timeout expired waiting for endpoint" =>
       /\ nb01.pc = "aborted"
       /\ nb01.calls[Len(nb01.calls)] \in {"GET serving-endpoints", "POST serving-endpoints"}
  /\ nb01.err = "Timeout expired waiting for index" =>
       /\ nb01.pc = "aborted"
       /\ nb01.calls[Len(nb01.calls)] = "get_index"
       /\ Issued("similarity_search") = {}

\* a first run that went through every cell: each call of the order issued
C25_Witness ==
  /\ nb01.pc = "done"
  /\ nb01.calls = CellOrder
  /\ cloud.index = "ready"

====
